---- MODULE Spec2Model ----
(***************************************************************************)
(* Model of the synastry / compatibility engine (src/compatibility.py).    *)
(* One Compatibility object is constructed from two chart records; its     *)
(* constructor runs _analyze, whose statements are the steps below.        *)
(*                                                                         *)
(* Numbers: positions are whole degrees (double arithmetic is exact on     *)
(* them); every derived real (averages, category scores, the overall       *)
(* score) is an exact rational <<numerator, denominator>> in lowest terms. *)
(* Text: a chart name, a body name and an aspect's planet label are        *)
(* sequences of characters, so that Python's substring test `x in s` is    *)
(* modelled by what it does.                                               *)
(***************************************************************************)
EXTENDS Integers, Sequences, FiniteSets, TLC

VARIABLES
    chart1, chart2,       \* self.chart1, self.chart2 (name1/name2 are their 'name')
    pc,                   \* position inside Compatibility._analyze
    aspects,              \* local `aspects` of _analyze
    element_compat, modality_compat, mbti_compat, enneagram_compat,
    category_scores,      \* local `category_scores`
    aspect_normalized,    \* local `aspect_normalized`
    overall_score,        \* local `overall_score` (clamped, not yet rounded)
    analysis,             \* self.analysis, the returned record
    angle,                \* one call of _calculate_angle_difference: deg1, deg2, diff
    rounding,             \* what round(x, 1) has returned so far, by argument
    previous,             \* get_data() of an earlier Compatibility object
    cli                   \* one run of main(): the command line and its outcome

vars == <<chart1, chart2, pc, aspects, element_compat, modality_compat,
          mbti_compat, enneagram_compat, category_scores, aspect_normalized,
          overall_score, analysis, angle,
                   rounding, previous, cli>>

None == [none |-> TRUE]

-----------------------------------------------------------------------------
(* Bounds of the explored inputs.                                          *)

\* how many of the sample positions PosList a body may stand at
NumPos == 4
\* how many bodies the richer chart of a pair holds at most
MaxBodies == 2

-----------------------------------------------------------------------------
(* Integer and rational helpers.                                           *)

Abs(x) == IF x < 0 THEN -x ELSE x

RECURSIVE GCD(_, _)
GCD(a, b) == IF b = 0 THEN a ELSE GCD(b, a % b)

\* the rational n/d (d # 0) in lowest terms with a positive denominator
Rat(n, d) ==
    LET g == GCD(Abs(n), Abs(d))
        s == IF d < 0 THEN -1 ELSE 1
    IN  <<(s * n) \div g, (s * d) \div g>>

R(i) == <<i, 1>>
RAdd(x, y) == Rat(x[1] * y[2] + y[1] * x[2], x[2] * y[2])
RSub(x, y) == Rat(x[1] * y[2] - y[1] * x[2], x[2] * y[2])
RMul(x, y) == Rat(x[1] * y[1], x[2] * y[2])
RDiv(x, y) == Rat(x[1] * y[2], x[2] * y[1])
RLt(x, y) == x[1] * y[2] < y[1] * x[2]
RLeq(x, y) == x[1] * y[2] <= y[1] * x[2]
RMax(x, y) == IF RLt(x, y) THEN y ELSE x
RMin(x, y) == IF RLt(y, x) THEN y ELSE x

RECURSIVE SumSeq(_)
SumSeq(s) == IF s = <<>> THEN 0 ELSE Head(s) + SumSeq(Tail(s))

RECURSIVE RSumSeq(_)
RSumSeq(s) == IF s = <<>> THEN R(0) ELSE RAdd(Head(s), RSumSeq(Tail(s)))

-----------------------------------------------------------------------------
(* Text helpers.                                                           *)

\* Python's `sub in s` on strings
Contains(sub, s) ==
    \E i \in 1..(Len(s) - Len(sub) + 1) : SubSeq(s, i, i + Len(sub) - 1) = sub

\* membership in a Python list
InList(x, list) == \E i \in 1..Len(list) : list[i] = x

Sun == <<"S", "u", "n">>
Moon == <<"M", "o", "o", "n">>
Mercury == <<"M", "e", "r", "c", "u", "r", "y">>
Venus == <<"V", "e", "n", "u", "s">>
Mars == <<"M", "a", "r", "s">>
Jupiter == <<"J", "u", "p", "i", "t", "e", "r">>

\* f"{name}'s {planet_name}"
PlanetLabel(name, planet_name) == name \o <<"'", "s", " ">> \o planet_name

-----------------------------------------------------------------------------
(* Class constants of Compatibility.                                       *)

\* the keys of ASPECT_ANGLES in insertion order (the order .items() yields)
ASPECT_NAMES == <<"conjunction", "opposition", "trine", "square", "sextile">>

\* ASPECT_ORBS with the trine and square orbs widened until they meet
ASPECT_ORBS_Wide ==
    [conjunction |-> 8, opposition |-> 8, trine |-> 15, square |-> 15, sextile |-> 4]

ASPECT_ORBS ==
    [conjunction |-> 8, opposition |-> 8, trine |-> 6, square |-> 6, sextile |-> 4]

ASPECT_ANGLES ==
    [conjunction |-> 0, opposition |-> 180, trine |-> 120, square |-> 90, sextile |-> 60]

ASPECT_SCORES ==
    [conjunction |-> 5, trine |-> 8, sextile |-> 6, opposition |-> -4, square |-> -6]

\* RELATIONSHIP_PLANETS with Jupiter added
RELATIONSHIP_PLANETS_WithJupiter == <<Sun, Moon, Venus, Mars, Mercury, Jupiter>>

RELATIONSHIP_PLANETS == <<Sun, Moon, Venus, Mars, Mercury>>

-----------------------------------------------------------------------------
(* Compatibility._calculate_angle_difference                               *)

\* _calculate_angle_difference without the fold at 180
_calculate_angle_difference_NoFold(deg1, deg2) == Abs(deg1 - deg2)

_calculate_angle_difference(deg1, deg2) ==
    LET diff == Abs(deg1 - deg2)
    IN  IF diff > 180 THEN 360 - diff ELSE diff

-----------------------------------------------------------------------------
(* Compatibility._find_aspects                                             *)

\* AspectEntry recording the signed deviation instead of its absolute value
AspectEntry_SignedOrb(name1, name2, p1, p2, aspect_name) ==
    LET angle_diff == _calculate_angle_difference(p1.degree, p2.degree)
    IN  [planet1 |-> PlanetLabel(name1, p1.pname),
         planet2 |-> PlanetLabel(name2, p2.pname),
         aspect  |-> aspect_name,
         orb     |-> angle_diff - ASPECT_ANGLES[aspect_name],
         score   |-> ASPECT_SCORES[aspect_name],
         sign1   |-> p1.sign,
         sign2   |-> p2.sign]

\* the dict appended for one (planet1, planet2, aspect_name) that is within orb
AspectEntry(name1, name2, p1, p2, aspect_name) ==
    LET angle_diff == _calculate_angle_difference(p1.degree, p2.degree)
    IN  [planet1 |-> PlanetLabel(name1, p1.pname),
         planet2 |-> PlanetLabel(name2, p2.pname),
         aspect  |-> aspect_name,
         orb     |-> Abs(angle_diff - ASPECT_ANGLES[aspect_name]),
         score   |-> ASPECT_SCORES[aspect_name],
         sign1   |-> p1.sign,
         sign2   |-> p2.sign]

\* WithinOrb with the tolerance taken as exclusive
WithinOrb_Exclusive(deg1, deg2, aspect_name) ==
    Abs(_calculate_angle_difference(deg1, deg2) - ASPECT_ANGLES[aspect_name])
        < ASPECT_ORBS[aspect_name]

\* the `if abs(angle_diff - target_angle) <= orb` of the innermost loop
WithinOrb(deg1, deg2, aspect_name) ==
    Abs(_calculate_angle_difference(deg1, deg2) - ASPECT_ANGLES[aspect_name])
        <= ASPECT_ORBS[aspect_name]

\* the innermost loop: the aspect kinds from the k-th on, for one pair of
\* relevant planets
RECURSIVE ScanKinds(_, _, _, _, _)
ScanKinds(c1, c2, p1, p2, k) ==
    IF k > Len(ASPECT_NAMES) THEN <<>>
    ELSE (IF WithinOrb(p1.degree, p2.degree, ASPECT_NAMES[k])
          THEN <<AspectEntry(c1.name, c2.name, p1, p2, ASPECT_NAMES[k])>>
          ELSE <<>>) \o ScanKinds(c1, c2, p1, p2, k + 1)

\* the two outer loops, flattened: step idx visits planet i of chart1 and
\* planet j of chart2, in that nesting order
RECURSIVE ScanAspects(_, _, _)
ScanAspects(c1, c2, idx) ==
    LET n2 == Len(c2.planets)
        total == Len(c1.planets) * n2
    IN  IF idx >= total THEN <<>>
        ELSE LET i == (idx \div n2) + 1
                 j == (idx % n2) + 1
                 p1 == c1.planets[i]
                 p2 == c2.planets[j]
                 relevant == /\ InList(p1.pname, RELATIONSHIP_PLANETS)
                             /\ InList(p2.pname, RELATIONSHIP_PLANETS)
             IN  (IF relevant THEN ScanKinds(c1, c2, p1, p2, 1) ELSE <<>>)
                 \o ScanAspects(c1, c2, idx + 1)

\* the sort key: lambda x: abs(x['score'])
SortKey(a) == Abs(a.score)

\* InsertByKey putting x in front of the elements of equal key, as a sort
\* does that is ascending and then reversed
RECURSIVE InsertByKey_TiesReversed(_, _)
InsertByKey_TiesReversed(sorted, x) ==
    IF sorted = <<>> THEN <<x>>
    ELSE IF SortKey(Head(sorted)) > SortKey(x)
         THEN <<Head(sorted)>> \o InsertByKey_TiesReversed(Tail(sorted), x)
         ELSE <<x>> \o sorted

\* insert x behind every element whose key is at least x's key
RECURSIVE InsertByKey(_, _)
InsertByKey(sorted, x) ==
    IF sorted = <<>> THEN <<x>>
    ELSE IF SortKey(Head(sorted)) >= SortKey(x)
         THEN <<Head(sorted)>> \o InsertByKey(Tail(sorted), x)
         ELSE <<x>> \o sorted

\* sorted(aspects, key=..., reverse=True): descending and stable
RECURSIVE SortedByKeyDesc(_, _)
SortedByKeyDesc(done, rest) ==
    IF rest = <<>> THEN done
    ELSE SortedByKeyDesc(InsertByKey(done, Head(rest)), Tail(rest))

_find_aspects(c1, c2) == SortedByKeyDesc(<<>>, ScanAspects(c1, c2, 0))

-----------------------------------------------------------------------------
(* The four categorical scorers.                                           *)

ELEMENT_COMPATIBILITY ==
    (<<"Fire", "Fire">> :> 7) @@ (<<"Fire", "Earth">> :> 3) @@
    (<<"Fire", "Air">> :> 8) @@ (<<"Fire", "Water">> :> 4) @@
    (<<"Earth", "Earth">> :> 7) @@ (<<"Earth", "Air">> :> 3) @@
    (<<"Earth", "Water">> :> 8) @@ (<<"Air", "Air">> :> 7) @@
    (<<"Air", "Water">> :> 4) @@ (<<"Water", "Water">> :> 7)

\* MBTI_COMPATIBILITY falling with every further difference
MBTI_COMPATIBILITY_Monotone ==
    [same |-> 8, one_diff |-> 7, two_diff |-> 6, three_diff |-> 5, opposite |-> 4]

MBTI_COMPATIBILITY ==
    [same |-> 6, one_diff |-> 7, two_diff |-> 8, three_diff |-> 5, opposite |-> 4]

\* a formatted text: the template and the values substituted into it
Text(template, args) == [text |-> template, args |-> args]

\* _interpret_element_pairing testing the Fire/Air and Earth/Water pairs
\* before the Yang and Yin groups
_interpret_element_pairing_CrossFirst(elem1, elem2) ==
    IF elem1 = elem2
    THEN Text("Both {} - Similar energy and approach to life", <<elem1>>)
    ELSE IF (elem1 = "Fire" /\ elem2 = "Air") \/ (elem1 = "Air" /\ elem2 = "Fire")
    THEN Text("Fire + Air - Highly compatible, stimulating and energizing", <<>>)
    ELSE IF (elem1 = "Earth" /\ elem2 = "Water") \/ (elem1 = "Water" /\ elem2 = "Earth")
    THEN Text("Earth + Water - Highly compatible, nurturing and stable", <<>>)
    ELSE IF elem1 \in {"Fire", "Air"} /\ elem2 \in {"Fire", "Air"}
    THEN Text("Yang elements - Active, outgoing, mentally/spiritually focused", <<>>)
    ELSE IF elem1 \in {"Earth", "Water"} /\ elem2 \in {"Earth", "Water"}
    THEN Text("Yin elements - Receptive, grounded, physically/emotionally focused", <<>>)
    ELSE Text("Complementary elements - Different approaches that can balance or clash", <<>>)

_interpret_element_pairing(elem1, elem2) ==
    IF elem1 = elem2
    THEN Text("Both {} - Similar energy and approach to life", <<elem1>>)
    ELSE IF elem1 \in {"Fire", "Air"} /\ elem2 \in {"Fire", "Air"}
    THEN Text("Yang elements - Active, outgoing, mentally/spiritually focused", <<>>)
    ELSE IF elem1 \in {"Earth", "Water"} /\ elem2 \in {"Earth", "Water"}
    THEN Text("Yin elements - Receptive, grounded, physically/emotionally focused", <<>>)
    ELSE IF (elem1 = "Fire" /\ elem2 = "Air") \/ (elem1 = "Air" /\ elem2 = "Fire")
    THEN Text("Fire + Air - Highly compatible, stimulating and energizing", <<>>)
    ELSE IF (elem1 = "Earth" /\ elem2 = "Water") \/ (elem1 = "Water" /\ elem2 = "Earth")
    THEN Text("Earth + Water - Highly compatible, nurturing and stable", <<>>)
    ELSE Text("Complementary elements - Different approaches that can balance or clash", <<>>)

\* _calculate_element_compatibility looking the pair up in the given order only
_calculate_element_compatibility_NoSwap(c1, c2) ==
    LET elem1 == c1.dominants.element
        elem2 == c2.dominants.element
        pair == <<elem1, elem2>>
        score == IF pair \in DOMAIN ELEMENT_COMPATIBILITY
                 THEN ELEMENT_COMPATIBILITY[pair] ELSE 5
    IN  [dominant_elements |-> <<elem1, elem2>>,
         score |-> score,
         interpretation |-> _interpret_element_pairing(elem1, elem2)]

_calculate_element_compatibility(c1, c2) ==
    LET elem1 == c1.dominants.element
        elem2 == c2.dominants.element
        pair == IF <<elem1, elem2>> \in DOMAIN ELEMENT_COMPATIBILITY
                THEN <<elem1, elem2>> ELSE <<elem2, elem1>>
        score == IF pair \in DOMAIN ELEMENT_COMPATIBILITY
                 THEN ELEMENT_COMPATIBILITY[pair] ELSE 5
    IN  [dominant_elements |-> <<elem1, elem2>>,
         score |-> score,
         interpretation |-> _interpret_element_pairing(elem1, elem2)]

\* _calculate_modality_compatibility taking Cardinal + Mutable in that order only
_calculate_modality_compatibility_Ordered(c1, c2) ==
    LET mod1 == c1.dominants.modality
        mod2 == c2.dominants.modality
        branch ==
            IF mod1 = mod2
            THEN <<6, Text("Both {} - Similar pace and approach to change", <<mod1>>)>>
            ELSE IF mod1 = "Cardinal" /\ mod2 = "Mutable"
            THEN <<7, Text("Cardinal + Mutable - Initiative meets adaptability", <<>>)>>
            ELSE IF "Fixed" \in {mod1, mod2} /\ "Mutable" \in {mod1, mod2}
            THEN <<6, Text("Fixed + Mutable - Stability meets flexibility", <<>>)>>
            ELSE <<5, Text("Cardinal + Fixed - Action meets resistance", <<>>)>>
    IN  [modalities |-> <<mod1, mod2>>,
         score |-> branch[1],
         interpretation |-> branch[2]]

_calculate_modality_compatibility(c1, c2) ==
    LET mod1 == c1.dominants.modality
        mod2 == c2.dominants.modality
        branch ==
            IF mod1 = mod2
            THEN <<6, Text("Both {} - Similar pace and approach to change", <<mod1>>)>>
            ELSE IF "Cardinal" \in {mod1, mod2} /\ "Mutable" \in {mod1, mod2}
            THEN <<7, Text("Cardinal + Mutable - Initiative meets adaptability", <<>>)>>
            ELSE IF "Fixed" \in {mod1, mod2} /\ "Mutable" \in {mod1, mod2}
            THEN <<6, Text("Fixed + Mutable - Stability meets flexibility", <<>>)>>
            ELSE <<5, Text("Cardinal + Fixed - Action meets resistance", <<>>)>>
    IN  [modalities |-> <<mod1, mod2>>,
         score |-> branch[1],
         interpretation |-> branch[2]]

\* sum(1 for a, b in zip(mbti1, mbti2) if a != b)
CountDifferences(mbti1, mbti2) ==
    LET n == IF Len(mbti1) < Len(mbti2) THEN Len(mbti1) ELSE Len(mbti2)
    IN  Cardinality({i \in 1..n : mbti1[i] # mbti2[i]})

_analyze_mbti_pairing(c1, c2) ==
    LET mbti1 == c1.mbti
        mbti2 == c2.mbti
        differences == CountDifferences(mbti1, mbti2)
        branch ==
            IF differences = 0
            THEN <<"same", "Identical types - Deep understanding but may lack growth tension">>
            ELSE IF differences = 1
            THEN <<"one_diff", "Very similar - Easy understanding with slight differences">>
            ELSE IF differences = 2
            THEN <<"two_diff", "Complementary - Balanced similarities and differences">>
            ELSE IF differences = 3
            THEN <<"three_diff", "Contrasting - Requires effort but can be rewarding">>
            ELSE <<"opposite", "Opposite types - Challenging but potentially transformative">>
    IN  [types |-> <<mbti1, mbti2>>,
         score |-> MBTI_COMPATIBILITY[branch[1]],
         differences |-> differences,
         interpretation |-> Text(branch[2], <<>>)]

\* harmonious_pairs without its last pair
harmonious_pairs_Short ==
    << <<1, 2>>, <<1, 7>>, <<2, 4>>, <<2, 8>>, <<3, 7>>, <<3, 9>>,
       <<4, 5>>, <<4, 9>>, <<5, 8>>, <<6, 9>> >>

harmonious_pairs ==
    << <<1, 2>>, <<1, 7>>, <<2, 4>>, <<2, 8>>, <<3, 7>>, <<3, 9>>,
       <<4, 5>>, <<4, 9>>, <<5, 8>>, <<6, 9>>, <<7, 8>> >>

_analyze_enneagram_pairing(c1, c2) ==
    LET type1 == c1.enneagram.type
        type2 == c2.enneagram.type
        pair == IF type1 <= type2 THEN <<type1, type2>> ELSE <<type2, type1>>
        is_harmonious ==
            \/ InList(pair, harmonious_pairs)
            \/ \E i \in 1..Len(harmonious_pairs) :
                   pair = <<harmonious_pairs[i][2], harmonious_pairs[i][1]>>
        branch ==
            IF type1 = type2
            THEN <<6, Text("Both Type {} - Deep understanding but may amplify weaknesses",
                           <<type1>>)>>
            ELSE IF is_harmonious
            THEN <<8, Text("Type {} + Type {} - Naturally complementary pairing",
                           <<type1, type2>>)>>
            ELSE <<5, Text("Type {} + Type {} - Requires conscious effort",
                           <<type1, type2>>)>>
    IN  [types |-> <<c1.enneagram.wing, c2.enneagram.wing>>,
         score |-> branch[1],
         interpretation |-> branch[2]]

-----------------------------------------------------------------------------
(* Compatibility._calculate_category_scores                                *)

\* [f(a) for a in seq if keep(a)] summed, for the integer valences
RECURSIVE SumScores(_)
SumScores(seq) == IF seq = <<>> THEN 0 ELSE Head(seq).score + SumScores(Tail(seq))

\* sum(a['score'] for a in aspects) / len(aspects) if aspects else 0
AspectAvg(asp) == IF asp # <<>> THEN Rat(SumScores(asp), Len(asp)) ELSE R(0)

\* the Sun-Moon filter in one direction only
IsSunMoon_OneWay(a) == Contains(Sun, a.planet1) /\ Contains(Moon, a.planet2)

IsSunMoon(a) ==
    \/ (Contains(Sun, a.planet1) /\ Contains(Moon, a.planet2))
    \/ (Contains(Moon, a.planet1) /\ Contains(Sun, a.planet2))

IsVenusMars(a) ==
    \/ (Contains(Venus, a.planet1) /\ Contains(Mars, a.planet2))
    \/ (Contains(Mars, a.planet1) /\ Contains(Venus, a.planet2))

IsMercury(a) == Contains(Mercury, a.planet1) \/ Contains(Mercury, a.planet2)

\* normalize without the upper clamp
normalize_NoUpperClamp(score) == RMax(R(0), score)

\* def normalize(score): return max(0, min(100, score))
normalize(score) == RMax(R(0), RMin(R(100), score))

\* _calculate_category_scores adding 2 * aspect_avg to the conflict score
\* whatever its sign
_calculate_category_scores_ConflictSigned(asp, c1, c2) ==
    LET aspect_avg == AspectAvg(asp)
        sun_moon == SelectSeq(asp, IsSunMoon)
        venus_mars == SelectSeq(asp, IsVenusMars)
        mercury == SelectSeq(asp, IsMercury)
        romance ==
            RAdd(RAdd(RAdd(R(50), RMul(aspect_avg, R(3))),
                      R(2 * SumScores(sun_moon))),
                 R(3 * SumScores(venus_mars)))
        friendship ==
            RAdd(RAdd(R(50), RMul(aspect_avg, R(3))), R(2 * SumScores(mercury)))
        business ==
            RAdd(RAdd(R(50), RMul(aspect_avg, R(2))),
                 R(_calculate_modality_compatibility(c1, c2).score * 2))
        communication ==
            RAdd(RAdd(R(50), RMul(aspect_avg, R(2))), R(3 * SumScores(mercury)))
        conflict == RAdd(R(50), RMul(aspect_avg, R(2)))
    IN  [romance |-> normalize(romance),
         friendship |-> normalize(friendship),
         business |-> normalize(business),
         communication |-> normalize(communication),
         conflict_resolution |-> normalize(conflict)]

_calculate_category_scores(asp, c1, c2) ==
    LET aspect_avg == AspectAvg(asp)
        sun_moon == SelectSeq(asp, IsSunMoon)
        venus_mars == SelectSeq(asp, IsVenusMars)
        mercury == SelectSeq(asp, IsMercury)
        romance ==
            RAdd(RAdd(RAdd(R(50), RMul(aspect_avg, R(3))),
                      R(2 * SumScores(sun_moon))),
                 R(3 * SumScores(venus_mars)))
        friendship ==
            RAdd(RAdd(R(50), RMul(aspect_avg, R(3))), R(2 * SumScores(mercury)))
        business ==
            RAdd(RAdd(R(50), RMul(aspect_avg, R(2))),
                 R(_calculate_modality_compatibility(c1, c2).score * 2))
        communication ==
            RAdd(RAdd(R(50), RMul(aspect_avg, R(2))), R(3 * SumScores(mercury)))
        conflict ==
            IF RLt(aspect_avg, R(0))
            THEN RSub(R(50), RMul(aspect_avg, R(2)))
            ELSE RAdd(R(50), RMul(aspect_avg, R(2)))
    IN  [romance |-> normalize(romance),
         friendship |-> normalize(friendship),
         business |-> normalize(business),
         communication |-> normalize(communication),
         conflict_resolution |-> normalize(conflict)]

-----------------------------------------------------------------------------
(* Compatibility._analyze: the overall score.                              *)

\* AspectNormalized without the +6 shift
AspectNormalized_NoShift(asp) ==
    LET aspect_score == AspectAvg(asp)
    IN  RMul(RDiv(aspect_score, R(12)), R(100))

\* aspect_normalized = ((aspect_score + 6) / 12) * 100
AspectNormalized(asp) ==
    LET aspect_score == AspectAvg(asp)
    IN  RMul(RDiv(RAdd(aspect_score, R(6)), R(12)), R(100))

\* sum(category_scores.values()) / len(category_scores)
CategoryMean(cats) ==
    RDiv(RSumSeq(<<cats.romance, cats.friendship, cats.business,
                   cats.communication, cats.conflict_resolution>>),
         R(Cardinality(DOMAIN cats)))

\* WeightedSum with 0.10 instead of 0.15 as the weight of the MBTI term
WeightedSum_MbtiWeight(asp, elem, modl, mbti, enne, cats) ==
    RSumSeq(<<RMul(AspectNormalized(asp), Rat(30, 100)),
              RMul(R(elem.score * 10), Rat(15, 100)),
              RMul(R(modl.score * 10), Rat(10, 100)),
              RMul(R(mbti.score * 10), Rat(10, 100)),
              RMul(R(enne.score * 10), Rat(10, 100)),
              RMul(CategoryMean(cats), Rat(20, 100))>>)

\* the weighted sum of lines 397-404, before the clamp
WeightedSum(asp, elem, modl, mbti, enne, cats) ==
    RSumSeq(<<RMul(AspectNormalized(asp), Rat(30, 100)),
              RMul(R(elem.score * 10), Rat(15, 100)),
              RMul(R(modl.score * 10), Rat(10, 100)),
              RMul(R(mbti.score * 10), Rat(15, 100)),
              RMul(R(enne.score * 10), Rat(10, 100)),
              RMul(CategoryMean(cats), Rat(20, 100))>>)

\* overall_score = max(0, min(100, overall_score))
ClampOverall(x) == RMax(R(0), RMin(R(100), x))

\* round(x, 1): the nearest multiple of 1/10. Python rounds the double it
\* holds, so for a value that is an exact decimal half (78.35) the double's
\* representation error decides between the two neighbours (78.3 or 78.4);
\* with exact rationals both are outcomes.
Round1Outcomes(x) ==
    LET n == x[1] * 10
        d == x[2]
        q == n \div d
        r == n % d
    IN  IF 2 * r < d THEN {Rat(q, 10)}
        ELSE IF 2 * r > d THEN {Rat(q + 1, 10)}
        ELSE {Rat(q, 10), Rat(q + 1, 10)}

\* Round1 forgetting what round returned before
Round1_Forgetful(x, returned) == Round1Outcomes(x)

\* round is a function: called again on a value it gives what it gave before
Round1(x, returned) ==
    IF x \in DOMAIN returned THEN {returned[x]} ELSE Round1Outcomes(x)

-----------------------------------------------------------------------------
(* The narrative: strengths, challenges, predictions.                      *)

\* one line of a list: a fixed text, or a template naming two planet labels
Line(text, planet1, planet2) == [text |-> text, planet1 |-> planet1, planet2 |-> planet2]
Fixed(text) == Line(text, <<>>, <<>>)

IsPositive(a) == a.score > 0
IsNegative(a) == a.score < 0

\* seq[:n]
Prefix(seq, n) == SubSeq(seq, 1, IF Len(seq) < n THEN Len(seq) ELSE n)

RECURSIVE StrengthLines(_)
StrengthLines(seq) ==
    IF seq = <<>> THEN <<>>
    ELSE LET a == Head(seq)
         IN  (IF a.aspect = "trine"
              THEN <<Line("{} trine {} - Natural flow and ease", a.planet1, a.planet2)>>
              ELSE IF a.aspect = "sextile"
              THEN <<Line("{} sextile {} - Opportunities for growth", a.planet1, a.planet2)>>
              ELSE <<>>) \o StrengthLines(Tail(seq))

\* _identify_strengths returning the whole list
_identify_strengths_Uncut(asp, categories) ==
    LET harmonious == SelectSeq(asp, IsPositive)
        strengths ==
            (IF Len(harmonious) >= 5
             THEN <<Fixed("Multiple harmonious planetary connections")>> ELSE <<>>)
            \o StrengthLines(Prefix(harmonious, 3))
            \o (IF RLeq(R(70), categories.romance)
                THEN <<Fixed("Strong romantic chemistry and attraction")>> ELSE <<>>)
            \o (IF RLeq(R(70), categories.communication)
                THEN <<Fixed("Excellent communication and understanding")>> ELSE <<>>)
            \o (IF RLeq(R(70), categories.friendship)
                THEN <<Fixed("Solid foundation of friendship and mutual respect")>> ELSE <<>>)
    IN  strengths

_identify_strengths(asp, categories) ==
    LET harmonious == SelectSeq(asp, IsPositive)
        strengths ==
            (IF Len(harmonious) >= 5
             THEN <<Fixed("Multiple harmonious planetary connections")>> ELSE <<>>)
            \o StrengthLines(Prefix(harmonious, 3))
            \o (IF RLeq(R(70), categories.romance)
                THEN <<Fixed("Strong romantic chemistry and attraction")>> ELSE <<>>)
            \o (IF RLeq(R(70), categories.communication)
                THEN <<Fixed("Excellent communication and understanding")>> ELSE <<>>)
            \o (IF RLeq(R(70), categories.friendship)
                THEN <<Fixed("Solid foundation of friendship and mutual respect")>> ELSE <<>>)
    IN  Prefix(strengths, 5)

RECURSIVE ChallengeLines(_)
ChallengeLines(seq) ==
    IF seq = <<>> THEN <<>>
    ELSE LET a == Head(seq)
         IN  (IF a.aspect = "square"
              THEN <<Line("{} square {} - Requires conscious effort to harmonize",
                          a.planet1, a.planet2)>>
              ELSE IF a.aspect = "opposition"
              THEN <<Line("{} opposite {} - Need to balance opposing needs",
                          a.planet1, a.planet2)>>
              ELSE <<>>) \o ChallengeLines(Tail(seq))

\* _identify_challenges without the fallback line
_identify_challenges_NoFallback(asp, categories) ==
    LET difficult == SelectSeq(asp, IsNegative)
        found ==
            ChallengeLines(Prefix(difficult, 3))
            \o (IF RLt(categories.communication, R(50))
                THEN <<Fixed("Communication styles may differ significantly")>> ELSE <<>>)
            \o (IF RLt(categories.conflict_resolution, R(50))
                THEN <<Fixed("Conflict resolution requires patience and effort")>> ELSE <<>>)
        challenges == found
    IN  Prefix(challenges, 5)

_identify_challenges(asp, categories) ==
    LET difficult == SelectSeq(asp, IsNegative)
        found ==
            ChallengeLines(Prefix(difficult, 3))
            \o (IF RLt(categories.communication, R(50))
                THEN <<Fixed("Communication styles may differ significantly")>> ELSE <<>>)
            \o (IF RLt(categories.conflict_resolution, R(50))
                THEN <<Fixed("Conflict resolution requires patience and effort")>> ELSE <<>>)
        challenges ==
            IF found = <<>>
            THEN <<Fixed("No major astrological challenges - focus on personal growth areas")>>
            ELSE found
    IN  Prefix(challenges, 5)

_generate_predictions(score) ==
    IF RLeq(R(75), score)
    THEN [best_case |-> "Deeply fulfilling partnership with natural harmony, mutual growth, and lasting connection",
          worst_case |-> "Risk of complacency or taking the relationship for granted"]
    ELSE IF RLeq(R(60), score)
    THEN [best_case |-> "Strong partnership with good potential for long-term success through mutual effort",
          worst_case |-> "Occasional friction that requires active communication and compromise"]
    ELSE IF RLeq(R(45), score)
    THEN [best_case |-> "Relationship can work with significant conscious effort and commitment from both parties",
          worst_case |-> "Recurring challenges may lead to frustration without strong foundation"]
    ELSE [best_case |-> "Opportunity for significant personal growth through navigating differences",
          worst_case |-> "Fundamental differences may create persistent tension and difficulty"]

-----------------------------------------------------------------------------
(* Chart records, as NatalChart._build_chart_data hands them over.         *)

\* NatalChart.PLANET_NAMES: the insertion order of a chart's 'planets' dict
PLANET_NAMES ==
    <<Sun, Moon, Mercury, Venus, Mars, Jupiter,
      <<"S", "a", "t", "u", "r", "n">>, <<"U", "r", "a", "n", "u", "s">>,
      <<"N", "e", "p", "t", "u", "n", "e">>, <<"P", "l", "u", "t", "o">>,
      <<"T", "r", "u", "e", "_", "N", "o", "d", "e">>, <<"C", "h", "i", "r", "o", "n">> >>

SIGNS ==
    <<"Aries", "Taurus", "Gemini", "Cancer", "Leo", "Virgo", "Libra", "Scorpio",
      "Sagittarius", "Capricorn", "Aquarius", "Pisces">>

\* one entry of chart['planets']: the key and the fields _find_aspects reads
Planet(pname, degree) ==
    [pname |-> pname, degree |-> degree, sign |-> SIGNS[(degree \div 30) + 1]]

Chart(name, planets, element, modality, mbti, type, wing) ==
    [name |-> name, planets |-> planets,
     dominants |-> [element |-> element, modality |-> modality],
     mbti |-> mbti,
     enneagram |-> [type |-> type, wing |-> <<type, wing>>]]

-----------------------------------------------------------------------------
(* The explored inputs.                                                    *)

\* sample positions: 10/130 trine, 10/314 sextile at the edge of its orb
\* (across 0), 130/314 opposition, 130/226 square at the edge of its orb,
\* 10/226 nothing, 10/19 and 314/19 one degree outside an orb
PosList == <<10, 130, 314, 226, 19, 18, 70, 190>>

Positions == {PosList[i] : i \in 1..(IF NumPos < Len(PosList) THEN NumPos ELSE Len(PosList))}

\* indices into PLANET_NAMES of the bodies a sampled chart may hold:
\* the five relevant ones and Jupiter
BodyPool == 1..6

RECURSIVE SortedSeq(_)
SortedSeq(S) ==
    IF S = {} THEN <<>>
    ELSE LET m == CHOOSE x \in S : \A y \in S : x <= y
         IN  <<m>> \o SortedSeq(S \ {m})

\* the 'planets' dict holding body i at f[i], in PLANET_NAMES order
PlanetsOf(f) ==
    LET idx == SortedSeq(DOMAIN f)
    IN  [k \in 1..Len(idx) |-> Planet(PLANET_NAMES[idx[k]], f[idx[k]])]

\* every 'planets' dict of at most n bodies of `pool` at positions of `pos`
Configs(pool, n, pos) ==
    {PlanetsOf(f) : f \in UNION {[S -> pos] : S \in {T \in SUBSET pool : Cardinality(T) <= n}}}

\* every pool body present, body i at the (i + shift)-th sample position
FullConfig(shift) ==
    PlanetsOf([i \in BodyPool |-> PosList[((i + shift) % Cardinality(Positions)) + 1]])

Ann == <<"A", "n", "n">>
Bob == <<"B", "o", "b">>
Sunny == <<"S", "u", "n", "n", "y">>
Marsha == <<"M", "a", "r", "s", "h", "a">>
Names == {Ann, Bob, Sunny, Marsha}

Elements == {"Fire", "Earth", "Air", "Water"}
Modalities == {"Cardinal", "Fixed", "Mutable"}
\* _find_dominants yields None when the distribution is empty
NoDominant == "None"
MbtiCodes == {<<ei, ns, tf, jp>> : ei \in {"E", "I"}, ns \in {"N", "S"},
                                   tf \in {"T", "F"}, jp \in {"J", "P"}}
ENTJ == <<"E", "N", "T", "J">>
\* codes at Hamming distance 0..4 from ENTJ
MbtiSample == {ENTJ, <<"E", "N", "T", "P">>, <<"E", "N", "F", "P">>,
               <<"E", "S", "F", "P">>, <<"I", "S", "F", "P">>}
EnneagramTypes == 1..9
\* the wing is a neighbouring type, 9 and 1 being neighbours
Wings(t) == {IF t = 1 THEN 9 ELSE t - 1, IF t = 9 THEN 1 ELSE t + 1}

DefaultChart(name, planets) == Chart(name, planets, "Fire", "Cardinal", ENTJ, 1, 2)

\* self.chart1 = chart1; self.chart2 = chart2
Given(c1, c2) == chart1 = c1 /\ chart2 = c2

\* pairs that vary the bodies and their positions: the first chart holds up
\* to MaxBodies bodies, the second at most one at the first two sample
\* positions
PlanetPairs ==
    \E p1 \in Configs(BodyPool, MaxBodies, Positions),
       p2 \in Configs(BodyPool, 1, {PosList[1], PosList[2]}) :
        Given(DefaultChart(Ann, p1), DefaultChart(Bob, p2))

\* the other way round: the second chart holds up to two bodies, the first
\* at most one, at any sample position
MirrorPairs ==
    \E p1 \in Configs(BodyPool, 1, Positions),
       p2 \in Configs(BodyPool, 2, Positions) :
        Given(DefaultChart(Ann, p1), DefaultChart(Bob, p2))

\* one chart holds Sun, Moon and Mercury at any sample positions, the other
\* Venus at any sample position
TriplePairs ==
    \E f \in [{1, 2, 3} -> Positions], q \in Positions :
        \/ Given(DefaultChart(Ann, PlanetsOf(f)), DefaultChart(Bob, PlanetsOf((4 :> q))))
        \/ Given(DefaultChart(Ann, PlanetsOf((4 :> q))), DefaultChart(Bob, PlanetsOf(f)))

\* pairs of charts that hold every pool body
FullPairs ==
    \E s1 \in 0..(Cardinality(Positions) - 1), s2 \in 0..(Cardinality(Positions) - 1) :
        Given(DefaultChart(Ann, FullConfig(s1)), DefaultChart(Bob, FullConfig(s2)))

\* pairs that vary the four categorical inputs of the first chart together
MixedPairs ==
    \E p1 \in Configs({1}, 1, {PosList[1]}),
       p2 \in Configs({1, 2}, 1, Positions),
       e \in Elements, m \in Modalities, c \in MbtiSample, t \in {1, 2, 3} :
        Given(Chart(Ann, p1, e, m, c, t, CHOOSE w \in Wings(t) : TRUE),
              DefaultChart(Bob, p2))

\* pairs that vary one categorical input of both charts
ScorerPairs ==
    LET p1 == PlanetsOf((1 :> PosList[1]))
        p2 == PlanetsOf((2 :> PosList[2]))
    IN  \/ \E e1 \in Elements \cup {NoDominant}, e2 \in Elements \cup {NoDominant} :
               Given(Chart(Ann, p1, e1, "Cardinal", ENTJ, 1, 2),
                     Chart(Bob, p2, e2, "Cardinal", ENTJ, 1, 2))
        \/ \E m1 \in Modalities \cup {NoDominant}, m2 \in Modalities \cup {NoDominant} :
               Given(Chart(Ann, p1, "Fire", m1, ENTJ, 1, 2),
                     Chart(Bob, p2, "Fire", m2, ENTJ, 1, 2))
        \/ \E c1 \in MbtiCodes, c2 \in MbtiCodes :
               Given(Chart(Ann, p1, "Fire", "Cardinal", c1, 1, 2),
                     Chart(Bob, p2, "Fire", "Cardinal", c2, 1, 2))
        \/ \E t1 \in EnneagramTypes, t2 \in EnneagramTypes :
               \E w1 \in Wings(t1), w2 \in Wings(t2) :
                   Given(Chart(Ann, p1, "Fire", "Cardinal", ENTJ, t1, w1),
                         Chart(Bob, p2, "Fire", "Cardinal", ENTJ, t2, w2))

\* pairs that vary the names, each chart holding one relevant body
NamePairs ==
    \E n1 \in Names, n2 \in Names,
       p1 \in Configs(1..5, 1, {PosList[1]}) \ {<<>>},
       p2 \in Configs(1..5, 1, Positions) \ {<<>>} :
        Given(DefaultChart(n1, p1), DefaultChart(n2, p2))

ChartPairs ==
    PlanetPairs \/ MirrorPairs \/ TriplePairs \/ FullPairs \/ MixedPairs \/ ScorerPairs
    \/ NamePairs

-----------------------------------------------------------------------------
(* Compatibility.__init__ and the steps of _analyze.                       *)

Init ==
    /\ ChartPairs
    /\ pc = "find_aspects"
    /\ aspects = None
    /\ element_compat = None
    /\ modality_compat = None
    /\ mbti_compat = None
    /\ enneagram_compat = None
    /\ category_scores = None
    /\ aspect_normalized = None
    /\ overall_score = None
    /\ analysis = None
    /\ angle = None
    /\ rounding = <<>>
    /\ previous = None
    /\ cli = None

\* aspects = self._find_aspects()
FindAspects ==
    /\ pc = "find_aspects"
    /\ aspects' = _find_aspects(chart1, chart2)
    /\ pc' = "compat"
    /\ UNCHANGED <<chart1, chart2, element_compat, modality_compat, mbti_compat,
                   enneagram_compat, category_scores, aspect_normalized, overall_score,
                   analysis, angle,
                   rounding, previous, cli>>

\* element_compat, modality_compat, mbti_compat, enneagram_compat = ...
Compat ==
    /\ pc = "compat"
    /\ element_compat' = _calculate_element_compatibility(chart1, chart2)
    /\ modality_compat' = _calculate_modality_compatibility(chart1, chart2)
    /\ mbti_compat' = _analyze_mbti_pairing(chart1, chart2)
    /\ enneagram_compat' = _analyze_enneagram_pairing(chart1, chart2)
    /\ pc' = "categories"
    /\ UNCHANGED <<chart1, chart2, aspects, category_scores, aspect_normalized,
                   overall_score, analysis, angle,
                   rounding, previous, cli>>

\* category_scores = self._calculate_category_scores(aspects)
CategoryScores ==
    /\ pc = "categories"
    /\ category_scores' = _calculate_category_scores(aspects, chart1, chart2)
    /\ pc' = "overall"
    /\ UNCHANGED <<chart1, chart2, aspects, element_compat, modality_compat, mbti_compat,
                   enneagram_compat, aspect_normalized, overall_score, analysis, angle,
                   rounding, previous, cli>>

\* overall_score = (...); overall_score = max(0, min(100, overall_score))
OverallScore ==
    /\ pc = "overall"
    /\ aspect_normalized' = AspectNormalized(aspects)
    /\ overall_score' = ClampOverall(WeightedSum(aspects, element_compat, modality_compat,
                                                 mbti_compat, enneagram_compat,
                                                 category_scores))
    /\ pc' = "narrative"
    /\ UNCHANGED <<chart1, chart2, aspects, element_compat, modality_compat, mbti_compat,
                   enneagram_compat, category_scores, analysis, angle,
                   rounding, previous, cli>>

\* strengths, challenges, predictions, and the returned dict
Return ==
    /\ pc = "narrative"
    /\ \E rounded \in Round1(overall_score, rounding) :
        /\ analysis' =
            [overall_score |-> rounded,
             aspects |-> aspects,
             element_compatibility |-> element_compat,
             modality_compatibility |-> modality_compat,
             mbti_compatibility |-> mbti_compat,
             enneagram_compatibility |-> enneagram_compat,
             category_scores |-> category_scores,
             strengths |-> _identify_strengths(aspects, category_scores),
             challenges |-> _identify_challenges(aspects, category_scores),
             predictions |-> _generate_predictions(overall_score)]
        /\ rounding' = (overall_score :> rounded) @@ rounding
    /\ pc' = "done"
    /\ UNCHANGED <<chart1, chart2, aspects, element_compat, modality_compat, mbti_compat,
                   enneagram_compat, category_scores, aspect_normalized, overall_score,
                   angle, previous, cli>>

Next == FindAspects \/ Compat \/ CategoryScores \/ OverallScore \/ Return

Spec == Init /\ [][Next]_vars

\* the analysis on the pairs that vary the categorical inputs only
InitScorers ==
    /\ MixedPairs \/ ScorerPairs
    /\ pc = "find_aspects"
    /\ aspects = None
    /\ element_compat = None
    /\ modality_compat = None
    /\ mbti_compat = None
    /\ enneagram_compat = None
    /\ category_scores = None
    /\ aspect_normalized = None
    /\ overall_score = None
    /\ analysis = None
    /\ angle = None
    /\ rounding = <<>>
    /\ previous = None
    /\ cli = None

SpecScorers == InitScorers /\ [][Next]_vars

-----------------------------------------------------------------------------
(* A second Compatibility object: the analysis run again, on the same two  *)
(* chart records or on records that differ from them in the names only.    *)

\* the state of __init__ before it calls _analyze
Start(c1, c2) ==
    /\ chart1' = c1
    /\ chart2' = c2
    /\ pc' = "find_aspects"
    /\ aspects' = None
    /\ element_compat' = None
    /\ modality_compat' = None
    /\ mbti_compat' = None
    /\ enneagram_compat' = None
    /\ category_scores' = None
    /\ aspect_normalized' = None
    /\ overall_score' = None
    /\ analysis' = None

\* Compatibility(chart1, chart2) once more, the first object's get_data() kept
AnalyzeAgain ==
    /\ pc = "done"
    /\ previous = None
    /\ previous' = analysis
    /\ Start(chart1, chart2)
    /\ UNCHANGED <<angle, rounding, cli>>

\* the pairs analysed twice
InitTwice ==
    /\ TriplePairs \/ FullPairs \/ MixedPairs \/ ScorerPairs \/ NamePairs
    /\ pc = "find_aspects"
    /\ aspects = None
    /\ element_compat = None
    /\ modality_compat = None
    /\ mbti_compat = None
    /\ enneagram_compat = None
    /\ category_scores = None
    /\ aspect_normalized = None
    /\ overall_score = None
    /\ analysis = None
    /\ angle = None
    /\ rounding = <<>>
    /\ previous = None
    /\ cli = None

NextTwice ==
    FindAspects \/ Compat \/ CategoryScores \/ OverallScore \/ Return \/ AnalyzeAgain

SpecTwice == InitTwice /\ [][NextTwice]_vars

\* the names a chart record may carry in the second analysis
OtherNames == Names \cup {Mercury}

\* Compatibility(...) on the same two records under other names, the first
\* object's get_data() kept
AnalyzeRenamed ==
    /\ pc = "done"
    /\ previous = None
    /\ previous' = analysis
    /\ \E n1 \in OtherNames, n2 \in OtherNames :
           /\ <<n1, n2>> # <<chart1.name, chart2.name>>
           /\ Start([chart1 EXCEPT !.name = n1], [chart2 EXCEPT !.name = n2])
    /\ UNCHANGED <<angle, rounding, cli>>

\* the pairs analysed under two sets of names: each chart holds one relevant
\* body
InitRenamed ==
    /\ \E p1 \in Configs(1..5, 1, {PosList[1]}) \ {<<>>},
          p2 \in Configs(1..5, 1, Positions) \ {<<>>} :
           Given(DefaultChart(Ann, p1), DefaultChart(Bob, p2))
    /\ pc = "find_aspects"
    /\ aspects = None
    /\ element_compat = None
    /\ modality_compat = None
    /\ mbti_compat = None
    /\ enneagram_compat = None
    /\ category_scores = None
    /\ aspect_normalized = None
    /\ overall_score = None
    /\ analysis = None
    /\ angle = None
    /\ rounding = <<>>
    /\ previous = None
    /\ cli = None

NextRenamed ==
    FindAspects \/ Compat \/ CategoryScores \/ OverallScore \/ Return \/ AnalyzeRenamed

SpecRenamed == InitRenamed /\ [][NextRenamed]_vars

\* Compatibility(chart2, chart1): the two records in the other order, the
\* first object's get_data() kept
AnalyzeSwapped ==
    /\ pc = "done"
    /\ previous = None
    /\ previous' = analysis
    /\ Start(chart2, chart1)
    /\ UNCHANGED <<angle, rounding, cli>>

NextSwapped ==
    FindAspects \/ Compat \/ CategoryScores \/ OverallScore \/ Return \/ AnalyzeSwapped

SpecSwapped == InitTwice /\ [][NextSwapped]_vars

-----------------------------------------------------------------------------
(* _calculate_angle_difference on its own, over every pair of whole        *)
(* degrees of the circle.                                                  *)

Degrees == 0..359

InitAngle ==
    /\ \E d1 \in Degrees, d2 \in Degrees : angle = [deg1 |-> d1, deg2 |-> d2, diff |-> -1]
    /\ pc = "angle"
    /\ chart1 = None /\ chart2 = None /\ aspects = None
    /\ element_compat = None /\ modality_compat = None /\ mbti_compat = None
    /\ enneagram_compat = None /\ category_scores = None /\ aspect_normalized = None
    /\ overall_score = None /\ analysis = None
    /\ rounding = <<>> /\ previous = None /\ cli = None

AngleDifference ==
    /\ pc = "angle"
    /\ angle' = [angle EXCEPT !.diff = _calculate_angle_difference(angle.deg1, angle.deg2)]
    /\ pc' = "angle_done"
    /\ UNCHANGED <<chart1, chart2, aspects, element_compat, modality_compat, mbti_compat,
                   enneagram_compat, category_scores, aspect_normalized, overall_score,
                   analysis, rounding, previous, cli>>

NextAngle == AngleDifference

SpecAngle == InitAngle /\ [][NextAngle]_vars

\* a chart holding every pool body at one position
UniformChart(name, deg) == DefaultChart(name, PlanetsOf([i \in BodyPool |-> deg]))

\* _find_aspects alone: a Sun and a Moon at any two whole positions of the
\* circle, and two charts of every body, the first at a sample position and
\* the second anywhere
InitWindows ==
    /\ \/ \E d1 \in Degrees, d2 \in Degrees :
              Given(DefaultChart(Ann, PlanetsOf((1 :> d1))),
                    DefaultChart(Bob, PlanetsOf((2 :> d2))))
       \/ \E d1 \in Positions, d2 \in Degrees :
              Given(UniformChart(Ann, d1), UniformChart(Bob, d2))
    /\ pc = "find_aspects"
    /\ aspects = None
    /\ element_compat = None /\ modality_compat = None /\ mbti_compat = None
    /\ enneagram_compat = None /\ category_scores = None /\ aspect_normalized = None
    /\ overall_score = None /\ analysis = None /\ angle = None
    /\ rounding = <<>> /\ previous = None /\ cli = None

NextWindows == FindAspects

SpecWindows == InitWindows /\ [][NextWindows]_vars

-----------------------------------------------------------------------------
(* src/main.py: one run of the command line, from parse_args to the exit   *)
(* code of the process.                                                    *)

\* a string, as the sequence of its characters
Str1977_06_06 == <<"1", "9", "7", "7", "-", "0", "6", "-", "0", "6">>
DateStrings ==
    {Str1977_06_06,
     <<"1", "9", "7", "7", "-", "6", "-", "6">>,
     <<"1", "9", "8", "0", "-", "0", "2", "-", "2", "9">>,
     <<"1", "9", "7", "7", "-", "0", "2", "-", "2", "9">>,
     <<"1", "9", "7", "7", "-", "1", "3", "-", "0", "1">>,
     <<"1", "9", "7", "7", "-", "0", "0", "-", "1", "0">>,
     <<"1", "9", "7", "7", "-", "0", "6", "-", "3", "1">>,
     <<"0", "6", "/", "0", "6", "/", "1", "9", "7", "7">>,
     <<"7", "7", "-", "0", "6", "-", "0", "6">>,
     <<"1", "9", "7", "7", "-", "0", "6">>,
     <<"1", "9", "7", "7", "-", "0", "6", "-", "0", "6", " ">>,
     <<"1", "9", "7", "7", "-", "0", "6", "-", " ", "6">>,
     <<"t", "o", "d", "a", "y">>,
     <<>>}

Str09_00 == <<"0", "9", ":", "0", "0">>
TimeStrings ==
    {Str09_00,
     <<"9", ":", "5">>,
     <<"2", "3", ":", "5", "9">>,
     <<"2", "4", ":", "0", "0">>,
     <<"0", "9", ":", "6", "0">>,
     <<"0", "9", "0", "0">>,
     <<"0", "9", ":", "0", "0", ":", "0", "0">>,
     <<"9", "a", "m">>,
     <<>>}

DigitValue ==
    ("0" :> 0) @@ ("1" :> 1) @@ ("2" :> 2) @@ ("3" :> 3) @@ ("4" :> 4) @@
    ("5" :> 5) @@ ("6" :> 6) @@ ("7" :> 7) @@ ("8" :> 8) @@ ("9" :> 9)

\* a non-empty run of digits
IsNumber(f) == Len(f) > 0 /\ \A i \in 1..Len(f) : f[i] \in DOMAIN DigitValue

RECURSIVE NumberValue(_)
NumberValue(f) ==
    IF f = <<>> THEN 0
    ELSE 10 * NumberValue(SubSeq(f, 1, Len(f) - 1)) + DigitValue[f[Len(f)]]

\* the fields of s between the occurrences of the separator
RECURSIVE Split(_, _)
Split(s, sep) ==
    IF s = <<>> THEN << <<>> >>
    ELSE LET rest == Split(Tail(s), sep)
         IN  IF Head(s) = sep THEN << <<>> >> \o rest
             ELSE << <<Head(s)>> \o Head(rest) >> \o Tail(rest)

DaysInMonth(year, month) ==
    IF month = 2
    THEN (IF (year % 4 = 0 /\ year % 100 # 0) \/ year % 400 = 0 THEN 29 ELSE 28)
    ELSE IF month \in {4, 6, 9, 11} THEN 30 ELSE 31

ValueError == [raised |-> "ValueError"]

\* parse_date: datetime.strptime(date_str, "%Y-%m-%d") takes a year of four
\* digits, a month of one or two digits and a day of one or two digits (or
\* a blank and one digit), and nothing else; the date must exist. Any
\* failure is a ValueError, raised again by the except.
parse_date(date_str) ==
    LET f == Split(date_str, "-")
        day == IF Len(f) = 3 /\ Len(f[3]) = 2 /\ Head(f[3]) = " " THEN Tail(f[3])
               ELSE IF Len(f) = 3 THEN f[3] ELSE <<>>
    IN  IF /\ Len(f) = 3
           /\ IsNumber(f[1]) /\ IsNumber(f[2]) /\ IsNumber(day)
           /\ Len(f[1]) = 4 /\ Len(f[2]) <= 2 /\ Len(day) <= 2
           /\ NumberValue(f[1]) >= 1
           /\ NumberValue(f[2]) \in 1..12
           /\ NumberValue(day) \in 1..DaysInMonth(NumberValue(f[1]), NumberValue(f[2]))
        THEN <<NumberValue(f[1]), NumberValue(f[2]), NumberValue(day)>>
        ELSE ValueError

\* parse_time that takes any two numbers
parse_time_AnyNumbers(time_str) ==
    LET f == Split(time_str, ":")
    IN  IF Len(f) = 2 /\ \A i \in 1..2 : IsNumber(f[i])
        THEN <<NumberValue(f[1]), NumberValue(f[2])>>
        ELSE ValueError

\* parse_time: datetime.strptime(time_str, "%H:%M") takes an hour 0..23 and
\* a minute 0..59 of one or two digits each, and nothing else.
parse_time(time_str) ==
    LET f == Split(time_str, ":")
    IN  IF /\ Len(f) = 2
           /\ \A i \in 1..2 : IsNumber(f[i])
           /\ Len(f[1]) <= 2 /\ Len(f[2]) <= 2
           /\ NumberValue(f[1]) \in 0..23
           /\ NumberValue(f[2]) \in 0..59
        THEN <<NumberValue(f[1]), NumberValue(f[2])>>
        ELSE ValueError

\* the variables of the engine, which main's own steps leave alone
engine_vars ==
    <<chart1, chart2, aspects, element_compat, modality_compat, mbti_compat,
      enneagram_compat, category_scores, aspect_normalized, overall_score, analysis,
      angle, rounding, previous>>

\* the command line and what the run meets: `usage` is FALSE when argparse
\* rejects the arguments; charts is how many NatalChart constructions
\* succeed before one raises; analysis_ok and write_ok tell whether
\* Compatibility(...) and the writing of the output file succeed
CommandLine(usage, command, date1, time1, date2, time2, output, charts, analysis_ok, write_ok) ==
    [usage |-> usage, command |-> command, date1 |-> date1, time1 |-> time1,
     date2 |-> date2, time2 |-> time2, output |-> output, charts |-> charts,
     analysis_ok |-> analysis_ok, write_ok |-> write_ok,
     raised |-> "none", printed |-> FALSE, saved |-> FALSE, exit_code |-> -1]

InitMain ==
    /\ \/ \E rejected \in BOOLEAN, command \in {"none", "natal", "compare"} :
              /\ rejected => command = "none"
              /\ cli = CommandLine(~rejected, command, Str1977_06_06, Str09_00,
                                   Str1977_06_06, Str09_00, FALSE, 2, TRUE, TRUE)
       \/ \E d \in DateStrings, t \in TimeStrings, output \in BOOLEAN,
             charts \in {0, 1}, write_ok \in BOOLEAN :
              cli = CommandLine(TRUE, "natal", d, t, Str1977_06_06, Str09_00, output,
                                charts, TRUE, write_ok)
       \/ \E d1 \in DateStrings, t1 \in {Str09_00, <<"2", "4", ":", "0", "0">>},
             d2 \in {Str1977_06_06, <<"t", "o", "d", "a", "y">>}, t2 \in TimeStrings,
             output \in BOOLEAN, charts \in {0, 1, 2}, analysis_ok \in BOOLEAN,
             write_ok \in BOOLEAN :
              cli = CommandLine(TRUE, "compare", d1, t1, d2, t2, output, charts,
                                analysis_ok, write_ok)
    /\ pc = "main"
    /\ chart1 = None /\ chart2 = None /\ aspects = None
    /\ element_compat = None /\ modality_compat = None /\ mbti_compat = None
    /\ enneagram_compat = None /\ category_scores = None /\ aspect_normalized = None
    /\ overall_score = None /\ analysis = None /\ angle = None
    /\ rounding = <<>> /\ previous = None

\* the process ends: sys.exit(code), or argparse's own exit
Exit(code) ==
    /\ cli' = [cli EXCEPT !.exit_code = code]
    /\ pc' = "exited"

\* an exception that nothing catches leaves main(); the interpreter prints
\* the traceback and the process ends with status 1
Uncaught(error) ==
    /\ cli' = [cli EXCEPT !.raised = error, !.exit_code = 1]
    /\ pc' = "exited"

\* main(): parse_args, the check for a missing command, the dispatch
Main ==
    /\ pc = "main"
    /\ IF ~cli.usage THEN Exit(2)
       ELSE IF cli.command = "none" THEN Exit(1)
       ELSE /\ pc' = cli.command
            /\ cli' = cli
    /\ UNCHANGED engine_vars

\* natal_command up to the try: parse_date and parse_time
NatalParse ==
    /\ pc = "natal"
    /\ IF parse_date(cli.date1) = ValueError \/ parse_time(cli.time1) = ValueError
       THEN Uncaught("ValueError")
       ELSE /\ pc' = "natal_try"
            /\ cli' = cli
    /\ UNCHANGED engine_vars

\* natal_command's try block: the chart, the printed report, the saved file
NatalReport ==
    /\ pc = "natal_try"
    /\ IF cli.charts < 1
       THEN cli' = [cli EXCEPT !.raised = "Exception", !.exit_code = 1]
       ELSE IF cli.output /\ ~cli.write_ok
       THEN cli' = [cli EXCEPT !.printed = TRUE, !.raised = "Exception", !.exit_code = 1]
       ELSE cli' = [cli EXCEPT !.printed = TRUE, !.saved = cli.output, !.exit_code = 0]
    /\ pc' = "exited"
    /\ UNCHANGED engine_vars

\* compare_command up to the try: the two dates and the two times
CompareParse ==
    /\ pc = "compare"
    /\ IF \/ parse_date(cli.date1) = ValueError \/ parse_time(cli.time1) = ValueError
          \/ parse_date(cli.date2) = ValueError \/ parse_time(cli.time2) = ValueError
       THEN Uncaught("ValueError")
       ELSE /\ pc' = "compare_try"
            /\ cli' = cli
    /\ UNCHANGED engine_vars

\* compare_command's try block: both charts, the analysis, the printed
\* report, the saved file
CompareReport ==
    /\ pc = "compare_try"
    /\ IF cli.charts < 2 \/ ~cli.analysis_ok
       THEN cli' = [cli EXCEPT !.raised = "Exception", !.exit_code = 1]
       ELSE IF cli.output /\ ~cli.write_ok
       THEN cli' = [cli EXCEPT !.printed = TRUE, !.raised = "Exception", !.exit_code = 1]
       ELSE cli' = [cli EXCEPT !.printed = TRUE, !.saved = cli.output, !.exit_code = 0]
    /\ pc' = "exited"
    /\ UNCHANGED engine_vars

NextMain == Main \/ NatalParse \/ NatalReport \/ CompareParse \/ CompareReport

SpecMain == InitMain /\ [][NextMain]_vars

-----------------------------------------------------------------------------
(* The aspect kind table and the relevance set as the specification        *)
(* states them, for the properties below.                                  *)

KindIdeal ==
    [conjunction |-> 0, sextile |-> 60, square |-> 90, trine |-> 120, opposition |-> 180]
KindTolerance ==
    [conjunction |-> 8, sextile |-> 4, square |-> 6, trine |-> 6, opposition |-> 8]
KindValence ==
    [conjunction |-> 5, sextile |-> 6, square |-> -6, trine |-> 8, opposition |-> -4]
Kinds == DOMAIN KindIdeal
RelevantBodies == {Sun, Moon, Venus, Mars, Mercury}

\* min(|d1 - d2|, 360 - |d1 - d2|)
Separation(d1, d2) ==
    LET direct == IF d1 >= d2 THEN d1 - d2 ELSE d2 - d1
    IN  IF direct <= 360 - direct THEN direct ELSE 360 - direct

AspectsFound == pc \in {"compat", "categories", "overall", "narrative", "done"}

InRange(x) == RLeq(R(0), x) /\ RLeq(x, R(100))

HasBody(chart, body) == \E i \in 1..Len(chart.planets) : chart.planets[i].pname = body
HasBodyAt(chart, body, deg) ==
    \E i \in 1..Len(chart.planets) :
        chart.planets[i].pname = body /\ chart.planets[i].degree = deg
NoRelevantBody(chart) == \A b \in RelevantBodies : ~HasBody(chart, b)

\* aspect a is the one between planet i of chart1 and planet j of chart2
IsBetween(a, i, j) ==
    /\ a.planet1 = PlanetLabel(chart1.name, chart1.planets[i].pname)
    /\ a.planet2 = PlanetLabel(chart2.name, chart2.planets[j].pname)

-----------------------------------------------------------------------------
\* C1: once the analysis is returned, each of the five category scores and
\* the overall score lies in [0,100].
C1_ScoresInRange ==
    pc = "done" =>
        /\ \A c \in {"romance", "friendship", "business", "communication",
                     "conflict_resolution"} : InRange(analysis.category_scores[c])
        /\ InRange(analysis.overall_score)

\* C1 witness: an analysis whose aspects are all trines and whose
\* friendship and communication scores sit at the upper end of the range.
C1_Witness ==
    /\ pc = "done"
    /\ Len(analysis.aspects) >= 2
    /\ \A n \in 1..Len(analysis.aspects) : analysis.aspects[n].aspect = "trine"
    /\ analysis.category_scores.friendship = R(100)
    /\ analysis.category_scores.communication = R(100)

\* the triples (planet i of chart1, planet j of chart2, kind k) the
\* specification asks an aspect for
WantedTriples ==
    {t \in (1..Len(chart1.planets)) \X (1..Len(chart2.planets)) \X Kinds :
        /\ chart1.planets[t[1]].pname \in RelevantBodies
        /\ chart2.planets[t[2]].pname \in RelevantBodies
        /\ LET sep == Separation(chart1.planets[t[1]].degree, chart2.planets[t[2]].degree)
               dev == IF sep >= KindIdeal[t[3]] THEN sep - KindIdeal[t[3]]
                      ELSE KindIdeal[t[3]] - sep
           IN  dev <= KindTolerance[t[3]]}

C3_OrbAndValence ==
    AspectsFound =>
        \A n \in 1..Len(aspects) :
            LET a == aspects[n]
            IN  /\ a.aspect \in Kinds
                /\ a.orb >= 0
                /\ a.orb <= KindTolerance[a.aspect]
                /\ a.score = KindValence[a.aspect]
                /\ \E i \in 1..Len(chart1.planets), j \in 1..Len(chart2.planets) :
                       /\ IsBetween(a, i, j)
                       /\ LET sep == Separation(chart1.planets[i].degree,
                                                chart2.planets[j].degree)
                          IN  \/ a.orb = sep - KindIdeal[a.aspect]
                              \/ a.orb = KindIdeal[a.aspect] - sep

\* C3 witness: a sextile whose separation is below the ideal angle, at the
\* edge of the tolerance.
C3_Witness ==
    /\ AspectsFound
    /\ \E n \in 1..Len(aspects) :
           /\ aspects[n].aspect = "sextile"
           /\ aspects[n].orb = 4
           /\ \E i \in 1..Len(chart1.planets), j \in 1..Len(chart2.planets) :
                  /\ IsBetween(aspects[n], i, j)
                  /\ Separation(chart1.planets[i].degree, chart2.planets[j].degree) = 56

\* the place of an aspect in the scan: chart-A body, then chart-B body, then
\* kind in the order the scan tries the kinds
ScanRank(a) ==
    LET i == CHOOSE x \in 1..Len(chart1.planets) :
                 a.planet1 = PlanetLabel(chart1.name, chart1.planets[x].pname)
        j == CHOOSE y \in 1..Len(chart2.planets) :
                 a.planet2 = PlanetLabel(chart2.name, chart2.planets[y].pname)
        k == CHOOSE z \in 1..Len(ASPECT_NAMES) : ASPECT_NAMES[z] = a.aspect
    IN  ((i - 1) * Len(chart2.planets) + (j - 1)) * Len(ASPECT_NAMES) + k

AbsValence(a) == IF a.score < 0 THEN -a.score ELSE a.score

\* C4: the aspect sequence is ordered by non-increasing absolute valence,
\* and aspects of equal absolute valence keep the order of the scan.
C4_SortedStable ==
    AspectsFound =>
        \A m \in 1..Len(aspects), n \in 1..Len(aspects) :
            m < n =>
                /\ AbsValence(aspects[m]) >= AbsValence(aspects[n])
                /\ AbsValence(aspects[m]) = AbsValence(aspects[n])
                       => ScanRank(aspects[m]) < ScanRank(aspects[n])

\* C4 witness: an opposition (-4) met first and sorted last, behind a
\* sextile (+6) and a square (-6) that keep the order of the scan.
C4_Witness ==
    /\ AspectsFound
    /\ Len(aspects) = 3
    /\ aspects[1].aspect = "sextile"
    /\ aspects[2].aspect = "square"
    /\ aspects[3].aspect = "opposition"
    /\ ScanRank(aspects[3]) < ScanRank(aspects[1])

\* C5: for all whole-degree positions d1, d2 in [0,360) the computed
\* difference equals the one with the arguments swapped, lies in [0,180]
\* and equals min(|d1-d2|, 360-|d1-d2|).
C5_AngleDifference ==
    pc = "angle_done" =>
        /\ angle.diff = _calculate_angle_difference(angle.deg2, angle.deg1)
        /\ angle.diff >= 0
        /\ angle.diff <= 180
        /\ angle.diff = Separation(angle.deg1, angle.deg2)

\* C5 witness: positions more than 180 apart (10 and 314), whose shortest
\* separation 56 runs across 0.
C5_Witness ==
    /\ pc = "angle_done"
    /\ angle.deg1 = 10 /\ angle.deg2 = 314
    /\ angle.diff = 56

\* the six weights of the overall score
OverallWeights ==
    [aspect |-> Rat(30, 100), element |-> Rat(15, 100), modality |-> Rat(10, 100),
     mbti |-> Rat(15, 100), enneagram |-> Rat(10, 100), category |-> Rat(20, 100)]

\* the mean of the five category scores of a result
MeanOfCategories(cats) ==
    RDiv(RAdd(RAdd(RAdd(RAdd(cats.romance, cats.friendship), cats.business),
                   cats.communication), cats.conflict_resolution), R(5))

\* the weighted sum of a result's parts, given the aspect component
WeightedOverall(component, res) ==
    RAdd(RAdd(RAdd(RAdd(RAdd(
        RMul(OverallWeights.aspect, component),
        RMul(OverallWeights.element, R(10 * res.element_compatibility.score))),
        RMul(OverallWeights.modality, R(10 * res.modality_compatibility.score))),
        RMul(OverallWeights.mbti, R(10 * res.mbti_compatibility.score))),
        RMul(OverallWeights.enneagram, R(10 * res.enneagram_compatibility.score))),
        RMul(OverallWeights.category, MeanOfCategories(res.category_scores)))

Clamp100(x) == IF RLt(x, R(0)) THEN R(0) ELSE IF RLt(R(100), x) THEN R(100) ELSE x

\* x is y rounded to one decimal: a multiple of 1/10 at most 1/20 from y
IsRoundedToTenth(x, y) ==
    /\ (x[1] * 10) % x[2] = 0
    /\ RLeq(RSub(x, y), Rat(1, 20))
    /\ RLeq(RSub(y, x), Rat(1, 20))

\* C6: the reported overall score is the one-decimal rounding of the clamp
\* to [0,100] of 0.30 x aspect component + 0.15 x 10 x Element +
\* 0.10 x 10 x Modality + 0.15 x 10 x Code-A + 0.10 x 10 x Code-B +
\* 0.20 x mean of the five category scores; the weights sum to 1.
C6_OverallFormula ==
    /\ RAdd(RAdd(RAdd(RAdd(RAdd(OverallWeights.aspect, OverallWeights.element),
                           OverallWeights.modality), OverallWeights.mbti),
                 OverallWeights.enneagram), OverallWeights.category) = R(1)
    /\ pc = "done" =>
           IsRoundedToTenth(analysis.overall_score,
                            Clamp100(WeightedOverall(aspect_normalized, analysis)))

\* C6 witness: a result with aspects whose weighted sum is not a multiple
\* of 1/10, so that the rounding changes it.
C6_Witness ==
    /\ pc = "done"
    /\ analysis.aspects # <<>>
    /\ analysis.overall_score # overall_score
    /\ overall_score = WeightedOverall(aspect_normalized, analysis)

\* the mean valence of an aspect sequence (0 when it is empty)
MeanValence(asp) ==
    IF asp = <<>> THEN R(0)
    ELSE Rat(SumSeq([n \in 1..Len(asp) |-> asp[n].score]), Len(asp))

\* the linear map of [-6,+8] onto [0,100]
Rescaled(v) == RMul(RDiv(RSub(v, R(-6)), RSub(R(8), R(-6))), R(100))

\* C7: the aspect component is the mean valence rescaled linearly from
\* [-6,+8] onto [0,100] (-6 gives 0, +8 gives 100) and lies in [0,100].
C7_AspectComponentRescaled ==
    pc \in {"narrative", "done"} =>
        /\ aspect_normalized = Rescaled(MeanValence(aspects))
        /\ InRange(aspect_normalized)

\* the bucket of a score: >=75, >=60, >=45, else
Bucket(score) ==
    IF RLeq(R(75), score) THEN 1
    ELSE IF RLeq(R(60), score) THEN 2
    ELSE IF RLeq(R(45), score) THEN 3
    ELSE 4

\* the bucket whose fixed texts a predictions pair carries
BucketOfTexts(pred) ==
    IF pred.best_case = "Deeply fulfilling partnership with natural harmony, mutual growth, and lasting connection"
       /\ pred.worst_case = "Risk of complacency or taking the relationship for granted"
    THEN 1
    ELSE IF pred.best_case = "Strong partnership with good potential for long-term success through mutual effort"
       /\ pred.worst_case = "Occasional friction that requires active communication and compromise"
    THEN 2
    ELSE IF pred.best_case = "Relationship can work with significant conscious effort and commitment from both parties"
       /\ pred.worst_case = "Recurring challenges may lead to frustration without strong foundation"
    THEN 3
    ELSE IF pred.best_case = "Opportunity for significant personal growth through navigating differences"
       /\ pred.worst_case = "Fundamental differences may create persistent tension and difficulty"
    THEN 4
    ELSE 0

\* C8: the predictions of a result are those of the bucket of the overall
\* score reported in the same result; a reported 75.0, 60.0 or 45.0 carries
\* the texts of the bucket it opens.
C8_PredictionsMatchReportedScore ==
    pc = "done" => BucketOfTexts(analysis.predictions) = Bucket(analysis.overall_score)

\* C9: when one of the charts has none of the five relevant bodies, the
\* analysis returns an empty aspect sequence and the category scores
\* romance 50, friendship 50, communication 50, conflict_resolution 50 and
\* business 50 + 2 x Modality score.
C9_EmptyOverlapBaseline ==
    (pc = "done" /\ (NoRelevantBody(chart1) \/ NoRelevantBody(chart2))) =>
        /\ analysis.aspects = <<>>
        /\ analysis.category_scores.romance = R(50)
        /\ analysis.category_scores.friendship = R(50)
        /\ analysis.category_scores.communication = R(50)
        /\ analysis.category_scores.conflict_resolution = R(50)
        /\ analysis.category_scores.business
               = R(50 + 2 * analysis.modality_compatibility.score)

\* C9 witness: both charts hold a body, Jupiter at the same position, but
\* none of the five relevant ones, and the analysis has returned.
C9_Witness ==
    /\ pc = "done"
    /\ HasBodyAt(chart1, Jupiter, 10) /\ HasBodyAt(chart2, Jupiter, 10)
    /\ NoRelevantBody(chart1) /\ NoRelevantBody(chart2)
    /\ analysis.aspects = <<>>

\* 1.5 x Element + 1.0 x Modality + 1.5 x Code-A + 1.0 x Code-B
\* + 0.20 x mean of the category scores
NonAspectTerms(res) ==
    RAdd(RAdd(RAdd(RAdd(
        RMul(Rat(3, 2), R(res.element_compatibility.score)),
        R(res.modality_compatibility.score)),
        RMul(Rat(3, 2), R(res.mbti_compatibility.score))),
        R(res.enneagram_compatibility.score)),
        RMul(Rat(1, 5), MeanOfCategories(res.category_scores)))

-----------------------------------------------------------------------------
(* Properties of the analysis run a second time.                           *)

SecondDone == pc = "done" /\ previous # None

-----------------------------------------------------------------------------
(* Properties of the four categorical scorers.                             *)

\* the element table as the specification states it, by unordered pair
ElementTable(S) ==
    IF ~(S \subseteq {"Fire", "Earth", "Air", "Water"}) THEN 5
    ELSE IF Cardinality(S) = 1 THEN 7
    ELSE IF S = {"Fire", "Air"} \/ S = {"Earth", "Water"} THEN 8
    ELSE IF S = {"Fire", "Water"} \/ S = {"Air", "Water"} THEN 4
    ELSE 3

ScorersDone == pc \in {"categories", "overall", "narrative", "done"}

\* C12: the Element score is the table value of the unordered pair of
\* dominant elements, the same with the charts swapped, and the neutral 5
\* when the pair is not in the table (a missing dominant element).
C12_ElementScore ==
    ScorersDone =>
        /\ element_compat.score =
               ElementTable({chart1.dominants.element, chart2.dominants.element})
        /\ element_compat.score = _calculate_element_compatibility(chart2, chart1).score

\* C12 witness: the first chart has no dominant element, the second has one.
C12_Witness ==
    /\ ScorersDone
    /\ chart1.dominants.element = NoDominant
    /\ chart2.dominants.element = "Water"
    /\ element_compat.score = 5

\* the number of positions at which two 4-letter codes differ
RECURSIVE Hamming(_, _)
Hamming(x, y) ==
    IF x = <<>> \/ y = <<>> THEN 0
    ELSE (IF Head(x) = Head(y) THEN 0 ELSE 1) + Hamming(Tail(x), Tail(y))

\* the score of a Hamming distance as the specification states it
HammingScore == (0 :> 6) @@ (1 :> 7) @@ (2 :> 8) @@ (3 :> 5) @@ (4 :> 4)

\* C13: the Personality-Code-A scorer reports the Hamming distance of the
\* two 4-letter codes as 'differences' and scores it 0->6, 1->7, 2->8, 3->5,
\* 4->4; identical codes give 0 and 6; the score is the same with the charts
\* swapped.
C13_MbtiScore ==
    ScorersDone =>
        /\ mbti_compat.differences = Hamming(chart1.mbti, chart2.mbti)
        /\ mbti_compat.score = HammingScore[Hamming(chart1.mbti, chart2.mbti)]
        /\ chart1.mbti = chart2.mbti
               => mbti_compat.differences = 0 /\ mbti_compat.score = 6
        /\ mbti_compat.score = _analyze_mbti_pairing(chart2, chart1).score

\* C13 witness: two codes that differ in exactly two letters, scored 8.
C13_Witness ==
    /\ ScorersDone
    /\ chart1.mbti = <<"I", "N", "T", "P">>
    /\ chart2.mbti = <<"E", "N", "T", "J">>
    /\ mbti_compat.differences = 2
    /\ mbti_compat.score = 8

-----------------------------------------------------------------------------
(* Properties of the command line.                                         *)

\* strings that are no date written YYYY-MM-DD
InvalidDates ==
    {<<"0", "6", "/", "0", "6", "/", "1", "9", "7", "7">>,
     <<"1", "9", "7", "7", "-", "1", "3", "-", "0", "1">>,
     <<"1", "9", "7", "7", "-", "0", "2", "-", "2", "9">>,
     <<"1", "9", "7", "7", "-", "0", "6", "-", "3", "1">>,
     <<"1", "9", "7", "7", "-", "0", "6">>,
     <<"t", "o", "d", "a", "y">>,
     <<>>}

\* strings that are no time written HH:MM
InvalidTimes ==
    {<<"2", "4", ":", "0", "0">>,
     <<"0", "9", ":", "6", "0">>,
     <<"0", "9", "0", "0">>,
     <<"9", "a", "m">>,
     <<>>}

Exited == pc = "exited" /\ cli # None /\ cli.usage

\* C14: the command line ends with exit code 0 when the requested report
\* was produced and with 1 on every raised error: an invalid date or time
\* string, a failure while generating a chart, for the natal and for the
\* compare subcommand; with no subcommand it ends with 1.
C14_ExitCodes ==
    Exited =>
        /\ cli.exit_code \in {0, 1}
        /\ cli.raised # "none" => cli.exit_code = 1
        /\ cli.command = "none" => cli.exit_code = 1
        /\ cli.exit_code = 0 <=>
               /\ cli.command \in {"natal", "compare"}
               /\ cli.raised = "none"
               /\ cli.printed
               /\ cli.output => cli.saved
        /\ cli.command \in {"natal", "compare"}
               /\ (cli.date1 \in InvalidDates \/ cli.time1 \in InvalidTimes)
               => cli.exit_code = 1 /\ cli.raised # "none"
        /\ cli.command = "compare"
               /\ (cli.date2 \in InvalidDates \/ cli.time2 \in InvalidTimes)
               => cli.exit_code = 1 /\ cli.raised # "none"
        /\ (cli.command = "natal" /\ cli.charts < 1)
               \/ (cli.command = "compare" /\ cli.charts < 2)
               => cli.exit_code = 1

\* C14 witness: a compare run whose only fault is the second time string,
\* ended with exit code 1.
C14_Witness ==
    /\ Exited
    /\ cli.command = "compare"
    /\ cli.date1 = Str1977_06_06 /\ cli.time1 = Str09_00 /\ cli.date2 = Str1977_06_06
    /\ cli.time2 = <<"2", "4", ":", "0", "0">>
    /\ cli.charts = 2 /\ cli.analysis_ok /\ cli.write_ok
    /\ cli.raised = "ValueError"
    /\ cli.exit_code = 1

-----------------------------------------------------------------------------
(* Properties of the category scores.                                      *)

CategoriesDone == pc \in {"overall", "narrative", "done"}

\* the body of chart A and the body of chart B an aspect is between
BodyA(a) ==
    chart1.planets[CHOOSE i \in 1..Len(chart1.planets) :
                       a.planet1 = PlanetLabel(chart1.name, chart1.planets[i].pname)].pname
BodyB(a) ==
    chart2.planets[CHOOSE j \in 1..Len(chart2.planets) :
                       a.planet2 = PlanetLabel(chart2.name, chart2.planets[j].pname)].pname

\* an aspect between body x of one chart and body y of the other
IsBetweenBodies(a, x, y) ==
    \/ (BodyA(a) = x /\ BodyB(a) = y)
    \/ (BodyA(a) = y /\ BodyB(a) = x)

\* an aspect with body x on either side
Involves(a, x) == BodyA(a) = x \/ BodyB(a) = x

\* the sum of the valences of the aspects whose index is in the set
ValenceSum(asp, indices) ==
    SumSeq([n \in 1..Len(asp) |-> IF n \in indices THEN asp[n].score ELSE 0])

SunMoonSum(asp) ==
    ValenceSum(asp, {n \in 1..Len(asp) : IsBetweenBodies(asp[n], Sun, Moon)})
VenusMarsSum(asp) ==
    ValenceSum(asp, {n \in 1..Len(asp) : IsBetweenBodies(asp[n], Venus, Mars)})
MercurySum(asp) ==
    ValenceSum(asp, {n \in 1..Len(asp) : Involves(asp[n], Mercury)})

\* 50 + k * avg + extra
Baseline(avg, k, extra) == RAdd(RAdd(R(50), RMul(R(k), avg)), R(extra))

\* C15: with avg the mean valence (0 when there is no aspect), romance is
\* clamp(50 + 3 avg + 2 x Sun-Moon valences + 3 x Venus-Mars valences),
\* friendship clamp(50 + 3 avg + 2 x Mercury valences), communication
\* clamp(50 + 2 avg + 3 x Mercury valences) and business
\* clamp(50 + 2 avg + 2 x Modality score), the clamp applied once, last.
C15_CategoryFormulas ==
    CategoriesDone =>
        LET avg == MeanValence(aspects)
        IN  /\ category_scores.romance =
                   Clamp100(Baseline(avg, 3, 2 * SunMoonSum(aspects)
                                             + 3 * VenusMarsSum(aspects)))
            /\ category_scores.friendship =
                   Clamp100(Baseline(avg, 3, 2 * MercurySum(aspects)))
            /\ category_scores.communication =
                   Clamp100(Baseline(avg, 2, 3 * MercurySum(aspects)))
            /\ category_scores.business =
                   Clamp100(Baseline(avg, 2, 2 * modality_compat.score))

\* |x| for a rational
RAbs(x) == IF RLt(x, R(0)) THEN RSub(R(0), x) ELSE x

ConflictLine == "Conflict resolution requires patience and effort"

\* C16: conflict_resolution is 50 + 2|avg|, between 50 and 66, never below
\* 50, and the challenge line for a conflict_resolution below 50 is never
\* emitted.
C16_ConflictResolution ==
    /\ CategoriesDone =>
           /\ category_scores.conflict_resolution =
                  RAdd(R(50), RMul(R(2), RAbs(MeanValence(aspects))))
           /\ RLeq(R(50), category_scores.conflict_resolution)
           /\ RLeq(category_scores.conflict_resolution, R(66))
    /\ pc = "done" =>
           \A n \in 1..Len(analysis.challenges) :
               analysis.challenges[n].text # ConflictLine

\* C16 witness: a finished analysis whose mean valence is negative and whose
\* conflict_resolution is above 50.
C16_Witness ==
    /\ pc = "done"
    /\ RLt(MeanValence(aspects), R(0))
    /\ RLt(R(50), category_scores.conflict_resolution)
    /\ Len(analysis.challenges) >= 1

\* C17: two analyses whose chart pairs differ only in the names of the charts
\* have the same five category scores and the same overall score.
C17_NamesDoNotMatter ==
    SecondDone =>
        /\ analysis.category_scores = previous.category_scores
        /\ analysis.overall_score = previous.overall_score

\* the branch of an unordered pair of modalities as the specification
\* states it: score and interpretation text
ModalityBranch(S) ==
    IF Cardinality(S) = 1 THEN <<6, "Both {} - Similar pace and approach to change">>
    ELSE IF S = {"Cardinal", "Mutable"}
    THEN <<7, "Cardinal + Mutable - Initiative meets adaptability">>
    ELSE IF S = {"Fixed", "Mutable"}
    THEN <<6, "Fixed + Mutable - Stability meets flexibility">>
    ELSE <<5, "Cardinal + Fixed - Action meets resistance">>

\* C18: the Modality score is symmetric, 6 for equal modalities, 7 for
\* Cardinal with Mutable, 6 for Fixed with Mutable and 5 otherwise; over
\* {Cardinal, Fixed, Mutable} the interpretation is the text of that branch.
C18_ModalityScore ==
    ScorersDone =>
        LET m1 == chart1.dominants.modality
            m2 == chart2.dominants.modality
        IN  /\ modality_compat.score = ModalityBranch({m1, m2})[1]
            /\ modality_compat.score = _calculate_modality_compatibility(chart2, chart1).score
            /\ {m1, m2} \subseteq {"Cardinal", "Fixed", "Mutable"}
                   => /\ modality_compat.interpretation.text = ModalityBranch({m1, m2})[2]
                      /\ m1 # m2 /\ modality_compat.score = 5
                             => {m1, m2} = {"Cardinal", "Fixed"}

\* C18 witness: Mutable in the first chart and Cardinal in the second,
\* scored 7.
C18_Witness ==
    /\ ScorersDone
    /\ chart1.dominants.modality = "Mutable"
    /\ chart2.dominants.modality = "Cardinal"
    /\ modality_compat.score = 7

\* the harmonious unordered pairs of types as the specification lists them
HarmoniousPairs ==
    {{1, 2}, {1, 7}, {2, 4}, {2, 8}, {3, 7}, {3, 9}, {4, 5}, {4, 9}, {5, 8}, {6, 9},
     {7, 8}}

\* chart c with another wing label
WithWing(c, w) == [c EXCEPT !.enneagram.wing = <<c.enneagram.type, w>>]

\* C19: for types t1, t2 in 1..9 the Personality-Code-B score is 6 when
\* t1 = t2, 8 when {t1, t2} is one of the 11 harmonious pairs and 5
\* otherwise; it is the same for (t2, t1) and whatever the wing labels.
C19_EnneagramScore ==
    ScorersDone =>
        LET t1 == chart1.enneagram.type
            t2 == chart2.enneagram.type
        IN  /\ Cardinality(HarmoniousPairs) = 11
            /\ enneagram_compat.score =
                   IF t1 = t2 THEN 6 ELSE IF {t1, t2} \in HarmoniousPairs THEN 8 ELSE 5
            /\ enneagram_compat.score = _analyze_enneagram_pairing(chart2, chart1).score
            /\ \A w1 \in 1..9, w2 \in 1..9 :
                   enneagram_compat.score =
                       _analyze_enneagram_pairing(WithWing(chart1, w1),
                                                  WithWing(chart2, w2)).score

\* C19 witness: types 8 and 7, a harmonious pair given in descending order,
\* scored 8.
C19_Witness ==
    /\ ScorersDone
    /\ chart1.enneagram.type = 8
    /\ chart2.enneagram.type = 7
    /\ enneagram_compat.score = 8

-----------------------------------------------------------------------------
(* Properties of the narrative.                                            *)

\* the indices of the positive-valence aspects, in the order of the sequence
PositiveIndices(asp) == SortedSeq({n \in 1..Len(asp) : asp[n].score > 0})

\* the first n entries of a sequence
FirstN(seq, n) == [k \in 1..(IF Len(seq) < n THEN Len(seq) ELSE n) |-> seq[k]]

\* the templated strength line of an aspect: one for a trine or a sextile
TemplatedStrength(a) ==
    IF a.aspect = "trine"
    THEN << [text |-> "{} trine {} - Natural flow and ease",
             planet1 |-> a.planet1, planet2 |-> a.planet2] >>
    ELSE IF a.aspect = "sextile"
    THEN << [text |-> "{} sextile {} - Opportunities for growth",
             planet1 |-> a.planet1, planet2 |-> a.planet2] >>
    ELSE <<>>

RECURSIVE TemplatedStrengths(_, _)
TemplatedStrengths(asp, indices) ==
    IF indices = <<>> THEN <<>>
    ELSE TemplatedStrength(asp[Head(indices)]) \o TemplatedStrengths(asp, Tail(indices))

FixedLine(text) == [text |-> text, planet1 |-> <<>>, planet2 |-> <<>>]

\* the line when the condition holds
LineIf(cond, text) == IF cond THEN <<FixedLine(text)>> ELSE <<>>

\* the strengths list as the specification builds it, before the cut
StatedStrengths(asp, cats) ==
    LineIf(Len(PositiveIndices(asp)) >= 5, "Multiple harmonious planetary connections")
    \o TemplatedStrengths(asp, FirstN(PositiveIndices(asp), 3))
    \o LineIf(RLeq(R(70), cats.romance), "Strong romantic chemistry and attraction")
    \o LineIf(RLeq(R(70), cats.communication), "Excellent communication and understanding")
    \o LineIf(RLeq(R(70), cats.friendship),
              "Solid foundation of friendship and mutual respect")

\* C20: the strengths list is the generic line iff at least 5 aspects are
\* positive, then one templated line per trine or sextile among the first 3
\* positive aspects (none for a conjunction), then the romance,
\* communication and friendship lines, each iff its score is >= 70, cut to
\* the first 5 entries; it never has more than 5 entries.
C20_Strengths ==
    pc = "done" =>
        /\ analysis.strengths =
               FirstN(StatedStrengths(analysis.aspects, analysis.category_scores), 5)
        /\ Len(analysis.strengths) <= 5

\* C20 witness: the generic line and three templated lines leave room for
\* one category line only, and the cut drops a line.
C20_Witness ==
    /\ pc = "done"
    /\ Len(analysis.strengths) = 5
    /\ analysis.strengths[1] = FixedLine("Multiple harmonious planetary connections")
    /\ Len(StatedStrengths(analysis.aspects, analysis.category_scores)) > 5

\* the indices of the negative-valence aspects, in the order of the sequence
NegativeIndices(asp) == SortedSeq({n \in 1..Len(asp) : asp[n].score < 0})

\* the templated challenge line of an aspect: one for a square or an
\* opposition
TemplatedChallenge(a) ==
    IF a.aspect = "square"
    THEN << [text |-> "{} square {} - Requires conscious effort to harmonize",
             planet1 |-> a.planet1, planet2 |-> a.planet2] >>
    ELSE IF a.aspect = "opposition"
    THEN << [text |-> "{} opposite {} - Need to balance opposing needs",
             planet1 |-> a.planet1, planet2 |-> a.planet2] >>
    ELSE <<>>

RECURSIVE TemplatedChallenges(_, _)
TemplatedChallenges(asp, indices) ==
    IF indices = <<>> THEN <<>>
    ELSE TemplatedChallenge(asp[Head(indices)]) \o TemplatedChallenges(asp, Tail(indices))

FallbackLine == FixedLine("No major astrological challenges - focus on personal growth areas")

\* the challenge lines as the specification builds them, the fallback aside
StatedChallenges(asp, cats) ==
    TemplatedChallenges(asp, FirstN(NegativeIndices(asp), 3))
    \o LineIf(RLt(cats.communication, R(50)),
              "Communication styles may differ significantly")

\* C21: the challenges list has between 1 and 5 entries: one templated line
\* for each of the first 3 negative-valence aspects (each a square or an
\* opposition), then the communication line iff communication < 50; the
\* fallback line is there iff no other line was produced, and is then the
\* only entry.
C21_Challenges ==
    pc = "done" =>
        LET stated == StatedChallenges(analysis.aspects, analysis.category_scores)
            negatives == FirstN(NegativeIndices(analysis.aspects), 3)
            has_fallback == \E n \in 1..Len(analysis.challenges) :
                                analysis.challenges[n] = FallbackLine
        IN  /\ Len(analysis.challenges) \in 1..5
            /\ \A k \in 1..Len(negatives) :
                   /\ analysis.aspects[negatives[k]].aspect \in {"square", "opposition"}
                   /\ analysis.challenges[k] =
                          TemplatedChallenge(analysis.aspects[negatives[k]])[1]
            /\ stated # <<>> => analysis.challenges = stated
            /\ has_fallback <=> stated = <<>>
            /\ has_fallback => analysis.challenges = <<FallbackLine>>

\* C21 witness: three templated lines followed by the communication line.
C21_Witness ==
    /\ pc = "done"
    /\ Len(NegativeIndices(analysis.aspects)) >= 3
    /\ RLt(analysis.category_scores.communication, R(50))
    /\ Len(analysis.challenges) = 4
    /\ analysis.challenges[4] = FixedLine("Communication styles may differ significantly")

\* the unordered pair of the two dominant elements
ElementPair == {chart1.dominants.element, chart2.dominants.element}

\* C22: the Element scorer never returns the 'Fire + Air' or the
\* 'Earth + Water' text: a Fire/Air pair gets the 'Yang elements' text, an
\* Earth/Water pair the 'Yin elements' text, identical elements the
\* 'Both <element>' text and every remaining pair the 'Complementary
\* elements' text.
C22_ElementTexts ==
    ScorersDone =>
        LET interpretation == element_compat.interpretation
        IN  /\ interpretation.text # "Fire + Air - Highly compatible, stimulating and energizing"
            /\ interpretation.text # "Earth + Water - Highly compatible, nurturing and stable"
            /\ interpretation =
                   IF Cardinality(ElementPair) = 1
                   THEN [text |-> "Both {} - Similar energy and approach to life",
                         args |-> <<chart1.dominants.element>>]
                   ELSE IF ElementPair = {"Fire", "Air"}
                   THEN [text |-> "Yang elements - Active, outgoing, mentally/spiritually focused",
                         args |-> <<>>]
                   ELSE IF ElementPair = {"Earth", "Water"}
                   THEN [text |-> "Yin elements - Receptive, grounded, physically/emotionally focused",
                         args |-> <<>>]
                   ELSE [text |-> "Complementary elements - Different approaches that can balance or clash",
                         args |-> <<>>]

\* C22 witness: an Air chart with a Fire chart, given the 'Yang elements'
\* text.
C22_Witness ==
    /\ ScorersDone
    /\ chart1.dominants.element = "Air"
    /\ chart2.dominants.element = "Fire"
    /\ element_compat.interpretation.text =
           "Yang elements - Active, outgoing, mentally/spiritually focused"

\* the five windows as the specification lists them
StatedWindows ==
    [conjunction |-> 0..8, sextile |-> 56..64, square |-> 84..96,
     trine |-> 114..126, opposition |-> 172..180]

\* the aspects of a sequence between body i of the first chart and body j
\* of the second
AspectsOfPair(asp, i, j) == {n \in 1..Len(asp) : IsBetween(asp[n], i, j)}

\* C23: the acceptance windows of the five aspect kinds over separations in
\* [0,180] are [0,8], [56,64], [84,96], [114,126] and [172,180], pairwise
\* disjoint; so a pair of bodies, wherever the two stand, yields at most one
\* aspect, and the aspect sequence has at most 25 entries.
C23_DisjointWindows ==
    AspectsFound =>
        /\ \A k1 \in Kinds, k2 \in Kinds :
               k1 # k2 => StatedWindows[k1] \cap StatedWindows[k2] = {}
        /\ \A i \in 1..Len(chart1.planets), j \in 1..Len(chart2.planets) :
               LET deg1 == chart1.planets[i].degree
                   deg2 == chart2.planets[j].degree
               IN  /\ \A k \in Kinds :
                          WithinOrb(deg1, deg2, k)
                              <=> Separation(deg1, deg2) \in StatedWindows[k]
                   /\ Cardinality({k \in Kinds : WithinOrb(deg1, deg2, k)}) <= 1
                   /\ Cardinality(AspectsOfPair(aspects, i, j)) <= 1
        /\ Len(aspects) <= 25

\* C23 witness: two charts of five relevant bodies each, 90 degrees apart:
\* every one of the 25 pairs is a square and nothing else.
C23_Witness ==
    /\ AspectsFound
    /\ chart1.planets[1].degree = 10
    /\ chart2.planets[1].degree = 280
    /\ Len(aspects) = 25
    /\ \A n \in 1..Len(aspects) : aspects[n].aspect = "square"

\* how many aspects of a sequence are of the given kind
KindCount(asp, kind) == Cardinality({n \in 1..Len(asp) : asp[n].aspect = kind})

\* C24: analysing (B, A) gives the same multiset of aspect kinds, the same
\* Element, Modality, Personality-Code-A and Personality-Code-B scores, the
\* same five category scores and the same overall score as analysing (A, B).
C24_SwapKeepsNumbers ==
    SecondDone =>
        /\ \A k \in Kinds : KindCount(analysis.aspects, k) = KindCount(previous.aspects, k)
        /\ Len(analysis.aspects) = Len(previous.aspects)
        /\ analysis.element_compatibility.score = previous.element_compatibility.score
        /\ analysis.modality_compatibility.score = previous.modality_compatibility.score
        /\ analysis.mbti_compatibility.score = previous.mbti_compatibility.score
        /\ analysis.enneagram_compatibility.score = previous.enneagram_compatibility.score
        /\ \A c \in {"romance", "friendship", "business", "communication",
                     "conflict_resolution"} :
               analysis.category_scores[c] = previous.category_scores[c]
        /\ analysis.overall_score = previous.overall_score

\* C24 witness: the swapped analysis of two charts with a Sun-Moon aspect in
\* one direction only, listed with its two labels exchanged.
C24_Witness ==
    /\ SecondDone
    /\ chart1.name = Bob /\ chart2.name = Ann
    /\ \E n \in 1..Len(analysis.aspects) :
           /\ analysis.aspects[n].planet1 = PlanetLabel(Bob, Moon)
           /\ analysis.aspects[n].planet2 = PlanetLabel(Ann, Sun)
    /\ ~ \E n \in 1..Len(analysis.aspects) :
           /\ analysis.aspects[n].planet1 = PlanetLabel(Bob, Sun)
           /\ analysis.aspects[n].planet2 = PlanetLabel(Ann, Moon)
    /\ analysis.aspects # previous.aspects

====
